---- MODULE Spec2Model ----
(***************************************************************************)
(* Model of src/server.py: the extractor _get_last_close_and_dma and the   *)
(* /dip handler get_dip.  The closes of a table are floats with integer    *)
(* values, written as integers; every number computed from them (mean,     *)
(* dip, rounded fields) is an IEEE 754 double, computed operation by       *)
(* operation as Python computes it.  A missing value is NaN.               *)
(***************************************************************************)
EXTENDS Integers, Sequences, FiniteSets, TLC

\* a missing cell (numpy NaN); a present cell holding v is <<v>>
NaN == << >>

Val(v) == << v >>

\* Python None, as the value of yf.download and of a local not yet found
None == [kind |-> "None"]

(* ---------------- program constants ---------------- *)

Window == 200

amount == 100

dip_100 == 10

dip_50 == 7

dip_25 == 4

index_options ==
  << [name |-> "S&P 500",            ticker |-> "^GSPC"],
     [name |-> "Nifty 50",           ticker |-> "^NSEI"],
     [name |-> "Nifty Midcap 150",   ticker |-> "0P0001IAU9.BO"],
     [name |-> "Nifty Smallcap 250", ticker |-> "0P0001Q0UH.BO"],
     [name |-> "NASDAQ",             ticker |-> "^IXIC"],
     [name |-> "BTC",                ticker |-> "BTC-USD"] >>

(* ---------------- Python floats: IEEE 754 doubles ------------------------ *)
(* A natural number of any size is a sequence of limbs, least significant  *)
(* first, without leading zero limbs: << a1, a2, a3 >> is                  *)
(* a1 + a2 * Base + a3 * Base^2.  A double is [s, m, e], standing for      *)
(* s * m * 2^e with s in {1, -1} and m an odd natural of at most Precision *)
(* bits: 100049.99 is [s |-> 1, m |-> <<15729, 11796, 13439, 195>>,        *)
(* e |-> -36] and 50.0 is [s |-> 1, m |-> <<25>>, e |-> 1].  The zeros are *)
(* [1, << >>, 0] for 0.0 and [-1, << >>, 0] for -0.0.  The values met are  *)
(* far from the subnormal and the infinite range.                          *)

\* bits of a limb
LimbBits == 15

\* bits of the significand of a double
Precision == 53

Max(a, b) == IF a >= b THEN a ELSE b

Min(a, b) == IF a <= b THEN a ELSE b

Abs(x) == IF x < 0 THEN -x ELSE x

\* 2^k
RECURSIVE Pow2(_)
Pow2(k) ==
  IF k = 0 THEN 1
  ELSE IF k % 2 = 0 THEN Pow2(k \div 2) * Pow2(k \div 2)
  ELSE 2 * Pow2(k - 1)

Base == Pow2(LimbBits)

\* limbs without the leading zero limbs
BStrip(a) ==
  LET nz == {i \in 1..Len(a) : a[i] # 0}
  IN IF nz = {} THEN << >>
     ELSE SubSeq(a, 1, CHOOSE i \in nz : \A j \in nz : j <= i)

RECURSIVE BFromInt(_)
BFromInt(n) == IF n = 0 THEN << >> ELSE << n % Base >> \o BFromInt(n \div Base)

Limb(a, i) == IF i <= Len(a) THEN a[i] ELSE 0

\* the sum of the limbs below i carries into limb i: some limb j overflows
\* and every limb between j and i is full
CarryInto(a, b, i) ==
  \E j \in 1..(i - 1) :
    /\ Limb(a, j) + Limb(b, j) >= Base
    /\ \A k \in (j + 1)..(i - 1) : Limb(a, k) + Limb(b, k) = Base - 1

\* a + b
BAdd(a, b) ==
  BStrip([i \in 1..(Max(Len(a), Len(b)) + 1) |->
            (Limb(a, i) + Limb(b, i) + (IF CarryInto(a, b, i) THEN 1 ELSE 0)) % Base])

\* the difference of the limbs below i borrows from limb i
BorrowInto(a, b, i) ==
  \E j \in 1..(i - 1) :
    /\ Limb(a, j) < Limb(b, j)
    /\ \A k \in (j + 1)..(i - 1) : Limb(a, k) = Limb(b, k)

\* a - b for a >= b
BSub(a, b) ==
  BStrip([i \in 1..Len(a) |->
            (Limb(a, i) - Limb(b, i) - (IF BorrowInto(a, b, i) THEN 1 ELSE 0)) % Base])

\* -1, 0, 1 as a < b, a = b, a > b: the longer is the larger, and of two of
\* one length the leading limb that differs decides
BCmp(a, b) ==
  IF Len(a) # Len(b) THEN (IF Len(a) < Len(b) THEN -1 ELSE 1)
  ELSE LET diff == {i \in 1..Len(a) : a[i] # b[i]}
       IN IF diff = {} THEN 0
          ELSE IF \E i \in diff : a[i] < b[i] /\ \A j \in diff : j <= i THEN -1
          ELSE 1

\* a * k for 0 <= k < Base: the low halves of the limb products, plus their
\* high halves one limb up
BMulSmall(a, k) ==
  BAdd([i \in 1..Len(a) |-> (a[i] * k) % Base],
       << 0 >> \o [i \in 1..Len(a) |-> (a[i] * k) \div Base])

RECURSIVE BMul(_, _)
BMul(a, b) ==
  IF a = << >> \/ b = << >> THEN << >>
  ELSE BAdd(BMulSmall(a, b[1]), BStrip(<< 0 >> \o BMul(a, Tail(b))))

\* a * 2^k
BShl(a, k) ==
  IF a = << >> THEN << >>
  ELSE [i \in 1..(k \div LimbBits) |-> 0] \o BMulSmall(a, Pow2(k % LimbBits))

\* a \div 2^k
BShr(a, k) ==
  LET w == k \div LimbBits
      s == k % LimbBits
  IN BStrip([i \in 1..(Len(a) - w) |->
               Limb(a, i + w) \div Pow2(s)
               + (Limb(a, i + w + 1) % Pow2(s)) * Pow2(LimbBits - s)])

\* a % 2^k
BLow(a, k) ==
  LET w == k \div LimbBits
      s == k % LimbBits
  IN BStrip([i \in 1..Min(Len(a), w + 1) |->
               IF i <= w THEN a[i] ELSE a[i] % Pow2(s)])

\* quotient and rest of a by 2^k
BDivPow2(a, k) == [q |-> BShr(a, k), r |-> BLow(a, k)]

\* bits of 0 <= n < Base
BitsOf(n) == Cardinality({j \in 0..(LimbBits - 1) : Pow2(j) <= n})

BitLen(a) == IF a = << >> THEN 0 ELSE LimbBits * (Len(a) - 1) + BitsOf(a[Len(a)])

\* the largest digit q in lo..hi with b * q <= r
QuotDigit(b, r, lo, hi) ==
  CHOOSE q \in lo..hi :
    /\ BCmp(BMulSmall(b, q), r) <= 0
    /\ q = hi \/ BCmp(BMulSmall(b, q + 1), r) > 0

\* the digit that the two leading limbs of cur give against the leading limb
\* of b, for Len(b) <= Len(cur) <= Len(b) + 1: with the leading limb of b at
\* Base / 2 or more, the digit of cur by b is this one or up to 2 below
Estimate(b, cur) ==
  LET n == Len(b)
  IN Min(Base - 1,
         (IF Len(cur) > n THEN cur[n + 1] * Base + cur[n] ELSE cur[n]) \div b[n])

\* one step of the long division by b: the digit that cur gives, and what is
\* left of cur
DivDigit(b, cur, qd) == [qd |-> qd, r |-> BSub(cur, BMulSmall(b, qd))]

DivStep(b, cur) ==
  IF Len(cur) < Len(b) THEN [qd |-> 0, r |-> cur]
  ELSE CHOOSE st \in { DivDigit(b, cur, QuotDigit(b, cur, Max(0, est - 2), est)) :
                         est \in { Estimate(b, cur) } } : TRUE

\* the digit qd put in front of the quotient of the lower limbs
PutDigit(rest, qd) == [q |-> rest.q \o << qd >>, r |-> rest.r]

\* long division of the limbs i..1 of a by b, r being the running rest; each
\* step is computed before the next is taken
RECURSIVE BDivFrom(_, _, _, _)
BDivFrom(a, b, i, r) ==
  IF i = 0 THEN [q |-> << >>, r |-> r]
  ELSE CHOOSE x \in { PutDigit(BDivFrom(a, b, i - 1, st.r), st.qd) :
                        st \in { DivStep(b, BStrip(<< a[i] >> \o r)) } } : TRUE

\* long division of the limbs i..1 of a by 0 < k < Base, r the running rest
RECURSIVE BDivSmallFrom(_, _, _, _)
BDivSmallFrom(a, k, i, r) ==
  IF i = 0 THEN [q |-> << >>, r |-> BFromInt(r)]
  ELSE CHOOSE x \in { PutDigit(BDivSmallFrom(a, k, i - 1, cur % k), cur \div k) :
                        cur \in { r * Base + a[i] } } : TRUE

StripQuotient(x) == [q |-> BStrip(x.q), r |-> x.r]

\* the division of a * 2^k by b * 2^k brought back to that of a by b
Unscale(x, k) == [q |-> BStrip(x.q), r |-> BShr(x.r, k)]

\* a and b with Len(a) >= Len(b) >= 2, both times 2^k, the leading limb of b
\* being Base / 2 or more: the leading Len(b) - 1 limbs of a are the first
\* running rest
BDivScaled(a, b, k) ==
  Unscale(BDivFrom(a, b, Len(a) - Len(b) + 1,
                   SubSeq(a, Len(a) - Len(b) + 2, Len(a))), k)

\* quotient and rest of a by b # 0
BDivMod(a, b) ==
  IF Len(b) = 1 THEN StripQuotient(BDivSmallFrom(a, b[1], Len(a), 0))
  ELSE IF BCmp(a, b) < 0 THEN [q |-> << >>, r |-> a]
  ELSE CHOOSE x \in { BDivScaled(BShl(a, k), BShl(b, k), k) :
                        k \in { LimbBits - BitsOf(b[Len(b)]) } } : TRUE

BOdd(a) == a # << >> /\ a[1] % 2 = 1

\* number of low zero bits of a # 0
TrailingZeros(a) ==
  LET i == CHOOSE i \in 1..Len(a) : a[i] # 0 /\ \A j \in 1..(i - 1) : a[j] = 0
  IN (i - 1) * LimbBits
     + (CHOOSE z \in 0..(LimbBits - 1) : a[i] % Pow2(z + 1) = Pow2(z))

\* the double s * m * 2^e, its significand made odd
FMake(s, m, e) ==
  IF m = << >> THEN [s |-> s, m |-> << >>, e |-> 0]
  ELSE CHOOSE x \in { [s |-> s, m |-> BShr(m, z), e |-> e + z] :
                        z \in { TrailingZeros(m) } } : TRUE

\* s * q * 2^e rounded to Precision bits, ties to the even significand: y is
\* q cut to Precision bits with the bits cut off, c tells whether those are
\* below (-1), at (0) or above (1) the half of the last bit kept, sticky
\* whether more than those bits was cut off before
RoundCut(s, y, c, sticky, e) ==
  FMake(s, IF c > 0 \/ (c = 0 /\ (sticky \/ BOdd(y.q))) THEN BAdd(y.q, << 1 >>) ELSE y.q, e)

\* drop >= 2 bits of q are beyond Precision
RoundBits(s, q, drop, sticky, e) ==
  CHOOSE x \in { RoundCut(s, y, BCmp(y.r, BFromInt(Pow2(drop - 1))), sticky, e + drop) :
                   y \in { BDivPow2(q, drop) } } : TRUE

\* x is a quotient of Precision + 2 bits or more, with the rest
RoundQuot(s, x, e) == RoundBits(s, x.q, BitLen(x.q) - Precision, x.r # << >>, e)

\* n is shifted by sh so that the quotient has two bits or more beyond
\* Precision
RoundShifted(s, n, d, e, sh) ==
  CHOOSE r \in { RoundQuot(s, x, e - sh) :
                   x \in { BDivMod(IF sh >= 0 THEN BShl(n, sh) ELSE n,
                                   IF sh >= 0 THEN d ELSE BShl(d, -sh)) } } : TRUE

\* s * (n / d) * 2^e, for naturals n and d # 0, rounded to the nearest
\* double, ties to the even significand
RoundToDouble(s, n, d, e) ==
  IF n = << >> THEN FMake(s, << >>, 0)
  ELSE CHOOSE r \in { RoundShifted(s, n, d, e, sh) :
                        sh \in { Precision + 2 - (BitLen(n) - BitLen(d)) } } : TRUE

\* float(i) for an integer i
FromInt(i) == FMake(IF i < 0 THEN -1 ELSE 1, BFromInt(Abs(i)), 0)

\* the double of n / d for integers n and d # 0: one division of two floats
\* of integer value
FromRat(n, d) ==
  RoundToDouble(IF (n < 0) # (d < 0) THEN -1 ELSE 1,
                BFromInt(Abs(n)), BFromInt(Abs(d)), 0)

IsZero(x) == x.m = << >>

FCmpAbs(x, y) ==
  LET lo == IF x.e < y.e THEN x.e ELSE y.e
  IN BCmp(BShl(x.m, x.e - lo), BShl(y.m, y.e - lo))

\* -1, 0, 1 as x < y, x == y, x > y
FCmp(x, y) ==
  LET sx == IF IsZero(x) THEN 0 ELSE x.s
      sy == IF IsZero(y) THEN 0 ELSE y.s
  IN IF sx # sy THEN (IF sx < sy THEN -1 ELSE 1)
     ELSE IF sx = 0 THEN 0
     ELSE sx * FCmpAbs(x, y)

\* x >= y
FGe(x, y) == FCmp(x, y) >= 0

\* x > y
FGt(x, y) == FCmp(x, y) > 0

\* -x
FNeg(x) == [x EXCEPT !.s = -x.s]

\* sign and size of sx * a + sy * b for a, b # 0, c comparing a with b
SignedSum(sx, sy, a, b, c) ==
  IF sx = sy THEN [s |-> sx, n |-> BAdd(a, b)]
  ELSE IF c = 0 THEN [s |-> 1, n |-> << >>]
  ELSE IF c > 0 THEN [s |-> sx, n |-> BSub(a, b)]
  ELSE [s |-> sy, n |-> BSub(b, a)]

RoundSum(t, e) == RoundToDouble(t.s, t.n, << 1 >>, e)

\* sx * a * 2^e + sy * b * 2^e
FAddAligned(sx, sy, a, b, e) == RoundSum(SignedSum(sx, sy, a, b, BCmp(a, b)), e)

\* x + y
FAdd(x, y) ==
  IF IsZero(x) /\ IsZero(y)
  THEN FMake(IF x.s = -1 /\ y.s = -1 THEN -1 ELSE 1, << >>, 0)
  ELSE IF IsZero(x) THEN y
  ELSE IF IsZero(y) THEN x
  ELSE LET lo == IF x.e < y.e THEN x.e ELSE y.e
       IN FAddAligned(x.s, y.s, BShl(x.m, x.e - lo), BShl(y.m, y.e - lo), lo)

\* x - y
FSub(x, y) == FAdd(x, FNeg(y))

\* x * y
FMul(x, y) == RoundToDouble(x.s * y.s, BMul(x.m, y.m), << 1 >>, x.e + y.e)

\* x / y for y # 0 (on y == 0 Python raises ZeroDivisionError)
FDiv(x, y) == RoundToDouble(x.s * y.s, x.m, y.m, x.e - y.e)

\* the hundredth s * q / 100 or the next one, as a double: c tells whether
\* what was cut off below q is below, at or above the half of a hundredth,
\* a tie going to the even hundredth
Round2Up(s, q, c) ==
  RoundToDouble(s, IF c > 0 \/ (c = 0 /\ BOdd(q)) THEN BAdd(q, << 1 >>) ELSE q,
                BFromInt(100), 0)

Round2Cut(s, y, half) == Round2Up(s, y.q, BCmp(y.r, half))

\* round(x, 2): the double nearest to the hundredth that is nearest to the
\* exact value of the double x, a tie between two hundredths going to the
\* even one; a double of integer value is its own result
Round2(x) ==
  IF IsZero(x) \/ x.e >= 0 THEN x
  ELSE Round2Cut(x.s, BDivPow2(BMulSmall(x.m, 100), -x.e), BShl(<< 1 >>, -x.e - 1))

(* ---------------- pandas operations used by the extractor --------------- *)

\* a DataFrame: column labels (first level) and rows of cells, one per label
DataFrame(labels, rows) == [kind |-> "DataFrame", labels |-> labels, rows |-> rows]

\* DataFrame.empty: some axis has length 0
empty(data) == Len(data.rows) = 0 \/ Len(data.labels) = 0

notna(v) == v # NaN

\* data["Close"] wrapped by pd.DataFrame: the Close columns, in column order
close_df(data) ==
  LET all == [j \in 1..Len(data.labels) |-> j]
      cc  == SelectSeq(all, LAMBDA j : data.labels[j] = "Close")
  IN [i \in 1..Len(data.rows) |-> [k \in 1..Len(cc) |-> data.rows[i][cc[k]]]]

RECURSIVE SumRange(_, _, _, _)
SumRange(frame, k, lo, hi) ==
  IF lo > hi THEN 0
  ELSE IF lo = hi THEN frame[lo][k][1]
  ELSE LET mid == (lo + hi) \div 2
       IN SumRange(frame, k, lo, mid) + SumRange(frame, k, mid + 1, hi)

\* a rolling window is valid when it holds `window` observations, none missing
WindowFull(frame, k, i, window) ==
  /\ i >= window
  /\ \A t \in (i - window + 1)..i : notna(frame[t][k])

\* sum and count of the non-missing cells of column k in rows lo..hi
RECURSIVE SumNotNa(_, _, _, _)
SumNotNa(frame, k, lo, hi) ==
  IF lo > hi THEN 0
  ELSE IF lo = hi THEN (IF notna(frame[lo][k]) THEN frame[lo][k][1] ELSE 0)
  ELSE LET mid == (lo + hi) \div 2
       IN SumNotNa(frame, k, lo, mid) + SumNotNa(frame, k, mid + 1, hi)

CountNotNa(frame, k, lo, hi) == Cardinality({t \in lo..hi : notna(frame[t][k])})

\* variant: rolling(window, min_periods=1), a mean as soon as one value is there
rolling_mean_min_periods(frame, window) ==
  [i \in 1..Len(frame) |->
     [k \in 1..Len(frame[i]) |->
        LET lo == Max(1, i - window + 1)
        IN IF CountNotNa(frame, k, lo, i) >= 1
           THEN Val(FromRat(SumNotNa(frame, k, lo, i), CountNotNa(frame, k, lo, i)))
           ELSE NaN]]

\* variant: a mean over the non-missing values of every complete span of rows
rolling_mean_skipna(frame, window) ==
  [i \in 1..Len(frame) |->
     [k \in 1..Len(frame[i]) |->
        IF i >= window /\ CountNotNa(frame, k, i - window + 1, i) >= 1
        THEN Val(FromRat(SumNotNa(frame, k, i - window + 1, i),
                         CountNotNa(frame, k, i - window + 1, i)))
        ELSE NaN]]

\* frame.rolling(window).mean(): per column, aligned to the same rows; the
\* sum of a window of closes is exact, the mean is that sum divided by the
\* number of observations
rolling_mean(frame, window) ==
  [i \in 1..Len(frame) |->
     [k \in 1..Len(frame[i]) |->
        IF WindowFull(frame, k, i, window)
        THEN Val(FromRat(SumRange(frame, k, i - window + 1, i), window))
        ELSE NaN]]

\* variant: dropna() with its default how="any"
dropna_any(frame) ==
  SelectSeq(frame, LAMBDA row : \A k \in 1..Len(row) : notna(row[k]))

\* frame.dropna(how="all"): rows with at least one non-missing value
dropna_all(frame) ==
  SelectSeq(frame, LAMBDA row : \E k \in 1..Len(row) : notna(row[k]))

\* the for-loop over a row's values: the first non-missing cell; NaN stands
\* for "the loop found none" (the local stays None)
FirstNotNa(row) ==
  IF \E k \in 1..Len(row) : notna(row[k])
  THEN row[CHOOSE k \in 1..Len(row) :
             /\ notna(row[k])
             /\ \A j \in 1..(k - 1) : ~notna(row[j])]
  ELSE NaN

Raise(exc) == [ok |-> FALSE, exc |-> exc]

HasClose(data) == \E j \in 1..Len(data.labels) : data.labels[j] = "Close"

\* _get_last_close_and_dma(data)
get_last_close_and_dma(data) ==
  IF data.kind = "None" \/ empty(data) THEN Raise("ValueError")
  ELSE IF ~HasClose(data) THEN Raise("ValueError")
  ELSE
    LET cdf       == close_df(data)
        dma       == rolling_mean(cdf, Window)
        closeRows == dropna_all(cdf)
        dmaRows   == dropna_all(dma)
    IN IF Len(closeRows) = 0 THEN Raise("IndexError")
       ELSE
         LET last_close_row == closeRows[Len(closeRows)]
             \* an empty row stands for last_dma_row = None
             last_dma_row   == IF Len(dmaRows) # 0 THEN dmaRows[Len(dmaRows)] ELSE << >>
             lc == FirstNotNa(last_close_row)
             ld == FirstNotNa(last_dma_row)
         IN IF lc = NaN \/ ld = NaN THEN Raise("ValueError")
            ELSE [ok |-> TRUE, last_close |-> FromInt(lc[1]), last_dma |-> ld[1]]

(* ---------------- the dip computation of get_dip ------------------------ *)

\* variant: the sign of the difference reversed
DipPercentAboveTrend(lc, ld) ==
  CHOOSE d \in { FMul(q, FromInt(100)) :
                   q \in { FDiv(x, ld) : x \in { FSub(lc, ld) } } } : TRUE

\* dip = ((last_dma - last_close) / last_dma) * 100, for last_dma # 0: three
\* float operations, each rounded before the next is applied
DipPercent(lc, ld) ==
  CHOOSE d \in { FMul(q, FromInt(100)) :
                   q \in { FDiv(x, ld) : x \in { FSub(ld, lc) } } } : TRUE

\* variant: strict comparisons
LadderStrict(d) ==
  IF FGt(d, FromInt(dip_100)) THEN [action |-> "Deploy 100%", deploy_amount |-> FromInt(amount)]
  ELSE IF FGt(d, FromInt(dip_50))
  THEN [action |-> "Deploy 50%", deploy_amount |-> FMul(FromRat(1, 2), FromInt(amount))]
  ELSE IF FGt(d, FromInt(dip_25))
  THEN [action |-> "Deploy 25%", deploy_amount |-> FMul(FromRat(1, 4), FromInt(amount))]
  ELSE [action |-> "Hold", deploy_amount |-> FromInt(0)]

\* variant: the ladder compares the dip as reported, rounded to 2 places
LadderOnRounded(d) ==
  IF FGe(Round2(d), FromInt(dip_100))
  THEN [action |-> "Deploy 100%", deploy_amount |-> FromInt(amount)]
  ELSE IF FGe(Round2(d), FromInt(dip_50))
  THEN [action |-> "Deploy 50%", deploy_amount |-> FMul(FromRat(1, 2), FromInt(amount))]
  ELSE IF FGe(Round2(d), FromInt(dip_25))
  THEN [action |-> "Deploy 25%", deploy_amount |-> FMul(FromRat(1, 4), FromInt(amount))]
  ELSE [action |-> "Hold", deploy_amount |-> FromInt(0)]

\* the if / elif ladder: action label and deploy_amount
Ladder(d) ==
  IF FGe(d, FromInt(dip_100)) THEN [action |-> "Deploy 100%", deploy_amount |-> FromInt(amount)]
  ELSE IF FGe(d, FromInt(dip_50))
  THEN [action |-> "Deploy 50%", deploy_amount |-> FMul(FromRat(1, 2), FromInt(amount))]
  ELSE IF FGe(d, FromInt(dip_25))
  THEN [action |-> "Deploy 25%", deploy_amount |-> FMul(FromRat(1, 4), FromInt(amount))]
  ELSE [action |-> "Hold", deploy_amount |-> FromInt(0)]

\* variant: the entry goes to the front
PrependResult(res, entry) == << entry >> \o res

\* results.append(entry)
AppendResult(res, entry) == Append(res, entry)

\* variant: the emptiness check left out
FinalResponseUnchecked(res) == [status |-> 200, results |-> res]

\* the end of get_dip: HTTPException(404) when results is empty, else the list
FinalResponse(res) ==
  IF res = << >>
  THEN [status |-> 404, detail |-> "No results available"]
  ELSE [status |-> 200, results |-> res]

\* the dict appended to results, its numbers rounded to 2 places
ResultEntry(opt, lc, ld, d, act, dep) ==
  [Index        |-> opt.name,
   Ticker       |-> opt.ticker,
   CurrentPrice |-> Round2(lc),
   DMA200       |-> Round2(ld),
   DipPct       |-> Round2(d),
   Action       |-> act,
   Deploy       |-> Round2(dep)]

(* ---------------- price tables the data provider may return ------------- *)

\* rows beyond the window a generated table may carry
MaxExtra == 2

\* trailing rows with every value missing a generated table may carry
MaxTail == 1

\* (mean of the complete column, last close) of the generated tables
Points ==
  {<<100000, c>> : c \in {88000, 90000, 90001, 90004, 90005, 93000, 93001,
                          96000, 96001, 100000, 110000}}

\* the same, with means and closes of either sign and of zero
SignedPoints ==
  Points
  \cup {<<M, c>> : M \in {-100000, 100000},
                   c \in {-110000, -100000, -90000, 0, 90000, 100000, 110000}}
  \cup {<<0, 0>>, <<0, 5>>}

\* price of the second column of a table with two columns
AuxPrice == 500

\* the primary column: n closes whose mean over the last two and any of the
\* others is M, ending in c; the rows in holes are missing
Primary(n, M, c, holes) ==
  [i \in 1..n |->
     IF i \in holes THEN NaN
     ELSE IF i = n THEN Val(c)
     ELSE IF i = n - 1 THEN Val(2 * M - c)
     ELSE Val(M)]

Aux(n, holes) == [i \in 1..n |-> IF i \in holes THEN NaN ELSE Val(AuxPrice)]

Layouts == {"flat", "nested", "nested_gap", "ohlc", "noclose"}

Labels(layout) ==
  CASE layout = "flat"       -> << "Close" >>
    [] layout = "nested"     -> << "Close", "Close" >>
    [] layout = "nested_gap" -> << "Close", "Close" >>
    [] layout = "ohlc"       -> << "Open", "Close" >>
    [] layout = "noclose"    -> << "Open" >>

Table(layout, n, M, c, holes, tail) ==
  LET p    == Primary(n, M, c, holes)
      a    == Aux(n, IF layout = "nested_gap" THEN {1} ELSE {})
      w    == Len(Labels(layout))
      body == [i \in 1..n |->
                 CASE layout \in {"flat", "noclose"}      -> << p[i] >>
                   [] layout \in {"nested", "nested_gap"} -> << p[i], a[i] >>
                   [] layout = "ohlc"                     -> << a[i], p[i] >>]
      gap  == [i \in 1..tail |-> [k \in 1..w |-> NaN]]
  IN DataFrame(Labels(layout), body \o gap)

Lengths == {0} \cup ((Window - 1)..(Window + MaxExtra))

\* a table that reaches the extractor has a row: one without closes carries
\* a trailing row at least
Tails(n) == (IF n = 0 THEN 1 ELSE 0)..MaxTail

HoleSets(n) == SUBSET ({1, n - 1, n} \cap (1..n))

Tables ==
  UNION { { Table(layout, n, pt[1], pt[2], holes, tail) :
              layout \in Layouts, pt \in Points,
              holes \in HoleSets(n), tail \in Tails(n) } : n \in Lengths }

\* complete single-column tables over SignedPoints
SignedTables ==
  { Table("flat", n, pt[1], pt[2], {}, tail) :
      n \in Window..(Window + MaxExtra), pt \in SignedPoints, tail \in 0..MaxTail }

\* what yf.download does for one ticker of a whole request: it raises,
\* returns None, an empty table, or a table
FetchRaises == [kind |-> "raise"]

BatchTables ==
  { Table("flat", Window, 100000, 88000, {}, 0),
    Table("flat", Window, 100000, 100000, {}, 0),
    Table("flat", Window, 0, 0, {}, 0),
    Table("flat", Window - 1, 100000, 88000, {}, 0) }

FetchOutcomes ==
  {FetchRaises, None, DataFrame(<< "Close" >>, << >>)} \cup BatchTables

(* ---------------- get_dip as a state machine ---------------------------- *)

VARIABLES
  pc,             \* position in get_dip: "fetch", "extract", "classify", "done"
  idx,            \* position of the loop in index_options
  data,           \* local data
  last_close,     \* local last_close
  last_dma,       \* local last_dma
  dip,            \* local dip
  action,         \* local action
  deploy_amount,  \* local deploy_amount
  results,        \* local results
  response,       \* what the request answers, once done
  trace           \* how each instrument handled so far ended

vars == << pc, idx, data, last_close, last_dma, dip, action, deploy_amount,
           results, response, trace >>

Unset == [kind |-> "unset"]

NumOptions == Len(index_options)

\* entry of get_dip
Init ==
  /\ pc = "fetch"
  /\ idx = 1
  /\ data = Unset
  /\ last_close = Unset
  /\ last_dma = Unset
  /\ dip = Unset
  /\ action = Unset
  /\ deploy_amount = Unset
  /\ results = << >>
  /\ response = Unset
  /\ trace = << >>

\* the extractor applied to any table of Tables, none of them empty, at its
\* call in get_dip: the loop is at its last instrument, the earlier ones
\* having failed to download
InitExtract ==
  /\ pc = "extract"
  /\ idx = NumOptions
  /\ data \in Tables
  /\ last_close = Unset
  /\ last_dma = Unset
  /\ dip = Unset
  /\ action = Unset
  /\ deploy_amount = Unset
  /\ results = << >>
  /\ response = Unset
  /\ trace = [i \in 1..(NumOptions - 1) |-> "fetch_error"]

\* as InitExtract, the table being one of SignedTables
InitSigned ==
  /\ pc = "extract"
  /\ idx = NumOptions
  /\ data \in SignedTables
  /\ last_close = Unset
  /\ last_dma = Unset
  /\ dip = Unset
  /\ action = Unset
  /\ deploy_amount = Unset
  /\ results = << >>
  /\ response = Unset
  /\ trace = [i \in 1..(NumOptions - 1) |-> "fetch_error"]

\* continue: on to the next instrument
Continue(how) ==
  /\ idx' = idx + 1
  /\ pc' = "fetch"
  /\ trace' = Append(trace, how)

\* yf.download for the current instrument, and the two checks that follow
Fetch ==
  /\ pc = "fetch"
  /\ idx <= NumOptions
  /\ \E o \in FetchOutcomes :
       IF o = FetchRaises
       THEN /\ Continue("fetch_error")
            /\ UNCHANGED data
       ELSE /\ data' = o
            /\ IF o.kind = "None" \/ empty(o)
               THEN Continue("no_data")
               ELSE /\ pc' = "extract"
                    /\ UNCHANGED << idx, trace >>
  /\ UNCHANGED << last_close, last_dma, dip, action, deploy_amount, results, response >>

\* the call of _get_last_close_and_dma inside try / except Exception
Extract ==
  /\ pc = "extract"
  /\ \E r \in { get_last_close_and_dma(data) } :
       IF r.ok
       THEN /\ last_close' = r.last_close
            /\ last_dma' = r.last_dma
            /\ pc' = "classify"
            /\ UNCHANGED << idx, trace >>
       ELSE /\ Continue("extract_error")
            /\ UNCHANGED << last_close, last_dma >>
  /\ UNCHANGED << data, dip, action, deploy_amount, results, response >>

\* dip, the ladder and results.append; a zero last_dma raises
\* ZeroDivisionError, which nothing in get_dip catches
Classify ==
  /\ pc = "classify"
  /\ IF IsZero(last_dma)
     THEN /\ pc' = "done"
          /\ response' = [status |-> 500, exc |-> "ZeroDivisionError"]
          /\ trace' = Append(trace, "zero_division")
          /\ UNCHANGED << idx, dip, action, deploy_amount, results >>
     ELSE \E d \in { DipPercent(last_close, last_dma) } :
            \E t \in { Ladder(d) } :
              /\ dip' = d
              /\ action' = t.action
              /\ deploy_amount' = t.deploy_amount
              /\ results' = AppendResult(results,
                              ResultEntry(index_options[idx], last_close, last_dma,
                                          d, t.action, t.deploy_amount))
              /\ Continue("ok")
              /\ UNCHANGED response
  /\ UNCHANGED << data, last_close, last_dma >>

\* after the loop: HTTPException(404) or the results
Finish ==
  /\ pc = "fetch"
  /\ idx > NumOptions
  /\ pc' = "done"
  /\ response' = FinalResponse(results)
  /\ UNCHANGED << idx, data, last_close, last_dma, dip, action, deploy_amount,
                  results, trace >>

Next == Fetch \/ Extract \/ Classify \/ Finish

Spec == Init /\ [][Next]_vars

NextExtract == Extract \/ Classify \/ Finish

SpecExtract == InitExtract /\ [][NextExtract]_vars

SpecSigned == InitSigned /\ [][NextExtract]_vars

(* ---------------- what the properties speak about ----------------------- *)

\* the Close columns of data, by position
CloseColumns == {j \in 1..Len(data.labels) : data.labels[j] = "Close"}

Present(i, j) == data.rows[i][j] # NaN

NonMissing(j) == Cardinality({i \in 1..Len(data.rows) : Present(i, j)})

\* every Close column has fewer non-missing closes than the window
Insufficient == \A j \in CloseColumns : NonMissing(j) < Window

CloseRowSet == {i \in 1..Len(data.rows) : \E j \in CloseColumns : Present(i, j)}

\* the most recent row with a non-missing close, and the first column that
\* has one in that row
LastCloseRow ==
  LET S == CloseRowSet
  IN CHOOSE i \in S : \A t \in S : t <= i

LastCloseIn(r) ==
  CHOOSE j \in CloseColumns :
    /\ Present(r, j)
    /\ \A k \in CloseColumns : Present(r, k) => j <= k

LastCloseCol == LastCloseIn(LastCloseRow)

\* column j has closes at row i and at each of the Window - 1 rows before it
FullWindow(i, j) ==
  /\ i >= Window
  /\ \A t \in (i - Window + 1)..i : Present(t, j)

DmaRowSet == {i \in 1..Len(data.rows) : \E j \in CloseColumns : FullWindow(i, j)}

RECURSIVE SumPresent(_, _, _)
SumPresent(j, lo, hi) ==
  IF lo > hi THEN 0
  ELSE IF lo = hi THEN (IF Present(lo, j) THEN data.rows[lo][j][1] ELSE 0)
  ELSE LET mid == (lo + hi) \div 2
       IN SumPresent(j, lo, mid) + SumPresent(j, mid + 1, hi)

\* x is the mean, as a float, of the closes of column j in rows lo..hi, cnt
\* of them present
IsMean(x, j, lo, hi, cnt) == x = FromRat(SumPresent(j, lo, hi), cnt)

\* the extractor has returned a pair for data
Returned == pc = "classify"

\* the extractor has raised for data
Raised == pc = "fetch" /\ Len(trace) > 0 /\ trace[Len(trace)] = "extract_error"

(* ---------------- the extractor ------------------------------------------ *)

\* first row of the Window most recent non-missing closes of column j that
\* end at row r
TrailStart(j, r) ==
  LET missing == r - Cardinality({t \in 1..r : Present(t, j)})
  IN CHOOSE lo \in (r - Window + 1 - missing)..(r - Window + 1) :
       /\ lo >= 1
       /\ Present(lo, j)
       /\ Cardinality({t \in lo..r : Present(t, j)}) = Window

\* C1 (as claimed): once the extractor has run on a table whose column of the
\* last close has at least Window non-missing closes, it has returned a pair
\* and last_dma is the mean of the Window most recent non-missing closes of
\* that column ending at the row of last_close
C1_MeanOfTrailingNonMissing ==
  (pc # "extract" /\ CloseRowSet # {}) =>
    LET r == LastCloseRow
        j == LastCloseCol
    IN NonMissing(j) >= Window =>
         /\ last_close # Unset
         /\ IsMean(last_dma, j, TrailStart(j, r), r, Window)

\* the table without rows, which get_dip never hands to the extractor
EmptyTable == DataFrame(<< "Close" >>, << >>)

\* C3: a table in which every Close column has fewer than Window non-missing
\* closes never makes the extractor return a pair, and get_dip gets no result
\* entry from it; the extractor raises for the table without rows too
C3_InsufficientDataRaises ==
  /\ ~get_last_close_and_dma(EmptyTable).ok
  /\ Insufficient =>
       /\ ~Returned
       /\ last_close = Unset /\ last_dma = Unset
       /\ results = << >>
       /\ (Len(trace) = NumOptions => trace[NumOptions] = "extract_error")

C3_Witness ==
  /\ Raised
  /\ Insufficient
  /\ \E j \in CloseColumns : NonMissing(j) = Window - 1

\* C9: the returned last_close is the first non-missing close, in column
\* order, of the most recent row that has a non-missing close
C9_LastCloseByTailScan ==
  Returned =>
    LET r == LastCloseRow
    IN last_close = FromInt(data.rows[r][LastCloseIn(r)][1])

\* trailing rows with every close missing were skipped, and the first Close
\* column of the row found is missing
C9_Witness ==
  /\ Returned
  /\ LastCloseRow < Len(data.rows)
  /\ \E j \in CloseColumns : j < LastCloseCol

\* the most recent row at which some column has a complete window
LastDmaRow ==
  LET S == DmaRowSet
  IN CHOOSE i \in S : \A t \in S : t <= i

\* C10: the returned last_dma comes from the most recent row at which some
\* Close column has Window consecutive non-missing closes, that row is never
\* after the row of last_close, and last_dma is the mean of those Window
\* closes of one column
C10_DmaRowNotAfterCloseRow ==
  Returned =>
    /\ DmaRowSet # {}
    /\ LET m == LastDmaRow
       IN /\ m <= LastCloseRow
          /\ \E j \in CloseColumns :
               /\ FullWindow(m, j)
               /\ IsMean(last_dma, j, m - Window + 1, m, Window)

\* the moving average returned is older than the close returned
C10_Witness ==
  /\ Returned
  /\ LastDmaRow < LastCloseRow
  /\ last_dma # last_close

(* ---------------- the classifier ----------------------------------------- *)

\* the loop has just appended the entry computed from the locals
JustClassified ==
  /\ pc \in {"fetch", "done"}
  /\ Len(trace) > 0
  /\ trace[Len(trace)] = "ok"

Below(d, t) == ~FGe(d, FromInt(t))

\* C4: the ladder is closed above and the first threshold met wins: a dip of
\* 10 or more deploys 100, of 7 up to 10 deploys 50, of 4 up to 7 deploys
\* 25, anything less holds with 0, and the amount goes with the label
C4_TierLadder ==
  JustClassified =>
    /\ FGe(dip, FromInt(10)) =>
         action = "Deploy 100%" /\ deploy_amount = FromInt(100)
    /\ (FGe(dip, FromInt(7)) /\ Below(dip, 10)) =>
         action = "Deploy 50%" /\ deploy_amount = FromInt(50)
    /\ (FGe(dip, FromInt(4)) /\ Below(dip, 7)) =>
         action = "Deploy 25%" /\ deploy_amount = FromInt(25)
    /\ Below(dip, 4) => action = "Hold" /\ deploy_amount = FromInt(0)
    /\ deploy_amount \in {FromInt(100), FromInt(50), FromInt(25), FromInt(0)}

C4_Witness ==
  /\ JustClassified
  /\ dip = FromInt(10)
  /\ action = "Deploy 100%"

\* amounts by which the last close is lowered when two closes are compared
Drops == {0, 1, 1000, 10000, 20000}

\* lowering last_close by drop, against the same last_dma, does not lower the
\* dip nor the amount deployed
NoLowerAfterDrop(drop) ==
  \E c1 \in { FSub(last_close, FromInt(drop)) } :
    \E lower \in { DipPercent(c1, last_dma) } :
      /\ FGe(lower, dip)
      /\ FGe(Ladder(lower).deploy_amount, deploy_amount)

\* C5 (as claimed): for any last_dma, a lower close gives a dip and a deploy
\* amount at least as large
C5_MonotonicForAnyDma ==
  JustClassified => \A drop \in Drops : NoLowerAfterDrop(drop)

\* C5 (amended): for any last_dma above zero, a lower close gives a dip and
\* a deploy amount at least as large
C5_MonotonicForPositiveDma ==
  (JustClassified /\ FGt(last_dma, FromInt(0))) => \A drop \in Drops : NoLowerAfterDrop(drop)

C5_Witness ==
  /\ JustClassified
  /\ FGt(last_dma, FromInt(0))
  /\ action = "Hold"
  /\ \E drop \in Drops :
       \E c1 \in { FSub(last_close, FromInt(drop)) } :
         Ladder(DipPercent(c1, last_dma)).action = "Deploy 100%"

\* C8: the action of the entry is decided by the dip before rounding, and the
\* entry reports the close, the average, the dip and the amount rounded to 2
\* places
C8_TierFromUnroundedDip ==
  JustClassified =>
    LET e == results[Len(results)]
        u == DipPercent(last_close, last_dma)
    IN /\ e.Action = (IF FGe(u, FromInt(10)) THEN "Deploy 100%"
                      ELSE IF FGe(u, FromInt(7)) THEN "Deploy 50%"
                      ELSE IF FGe(u, FromInt(4)) THEN "Deploy 25%"
                      ELSE "Hold")
       /\ e.CurrentPrice = Round2(last_close)
       /\ e.DMA200 = Round2(last_dma)
       /\ e.DipPct = Round2(u)
       /\ e.Deploy = Round2(deploy_amount)

\* the dip, below 10, is reported as 10.0 while the entry is in the 50% tier
C8_Witness ==
  /\ JustClassified
  /\ Below(dip, 10)
  /\ results[Len(results)].DipPct = FromInt(10)
  /\ results[Len(results)].Action = "Deploy 50%"

(* ---------------- the batch ---------------------------------------------- *)

Failures == {"fetch_error", "no_data", "extract_error"}

\* C2 (as claimed): a request ends either with the results of the
\* instruments that succeeded or, when there is none, with the 404 failure
C2_OnlyTotalFailureSurfaces ==
  pc = "done" =>
    \/ response.status = 200 /\ response.results = results /\ results # << >>
    \/ response.status = 404 /\ results = << >>

\* positions of the instruments that got an entry
Succeeded == SelectSeq([i \in 1..Len(trace) |-> i], LAMBDA i : trace[i] = "ok")

\* C6: the list returned has one entry per instrument that succeeded, none
\* for the others, in the order of index_options
C6_OneEntryPerSuccessInOrder ==
  (pc = "done" /\ response.status = 200) =>
    LET ok == Succeeded
    IN /\ Len(trace) = NumOptions
       /\ Len(response.results) = Len(ok)
       /\ \A k \in 1..Len(ok) :
            /\ response.results[k].Index = index_options[ok[k]].name
            /\ response.results[k].Ticker = index_options[ok[k]].ticker

\* six configured, two fail to download, four succeed
C6_Witness ==
  /\ pc = "done"
  /\ response.status = 200
  /\ Len(response.results) = 4
  /\ Cardinality({i \in 1..Len(trace) : trace[i] = "fetch_error"}) = 2
  /\ trace[1] = "fetch_error"

\* C7: the 404 failure is signalled exactly when every configured instrument
\* failed, and a list returned is never empty
C7_NotFoundIffAllFailed ==
  pc = "done" =>
    /\ response.status = 404 <=>
         (Len(trace) = NumOptions /\ \A i \in 1..NumOptions : trace[i] \in Failures)
    /\ response.status = 200 => response.results # << >>

\* every instrument failed, in each of the three ways
C7_Witness ==
  /\ pc = "done"
  /\ response.status = 404
  /\ \A f \in Failures : \E i \in 1..Len(trace) : trace[i] = f

====
